---- MODULE Spec2Model ----
(***************************************************************************)
(* State-machine model of the church website backend (src/1.py):           *)
(* the donation flow (process_donation, process_mobile_money, send_sms),   *)
(* the admin login, and the file-bearing creates (photo, video, document   *)
(* upload and news creation).                                              *)
(*                                                                         *)
(* Python values: None is the string "None"; a dict is a record whose      *)
(* DOMAIN is the set of keys present; a str that the code inspects         *)
(* (file names, references) is a sequence of one-character strings.        *)
(***************************************************************************)
EXTENDS Integers, Sequences, FiniteSets, TLC

VARIABLES
    env,          \* the process environment read by os.getenv
    now,          \* datetime.now(), in whole seconds since the model's epoch
    nattempts,    \* number of donation requests received so far
    pc,           \* per worker thread: position inside process_donation
    request,      \* per worker thread: request.json of the request in hand
    payment_result, \* per worker thread: local payment_result
    sms_result,   \* per worker thread: local sms_result
    response,     \* per worker thread: the (status code, body) returned
    lastrowid,    \* per worker thread: id of the row its INSERT added, 0 if none
    hist,         \* per worker thread: what the request in hand did, in order
    donations,    \* table donations, row id = position
    admins,       \* table admins
    photos,       \* table photos
    videos,       \* table videos
    documents,    \* table documents
    news,         \* table news
    storage,      \* the files under UPLOAD_FOLDER, as [dir, name]
    nuploads,     \* number of upload and news requests handled so far
    audit,        \* the log lines written by admin_login
    contact_messages, \* table contact_messages
    last          \* the last request answered in one step, and its response

donationVars == <<nattempts, pc, request, payment_result, sms_result,
                  response, lastrowid, hist, donations>>

mediaVars == <<photos, videos, documents, news, storage, nuploads>>

loginVars == <<admins, audit>>

vars == <<env, now, donationVars, mediaVars, loginVars, contact_messages, last>>

None == "None"

\* ---------------------------------------------------------------- bounds
MaxClock == 1
MaxAttempts == 2
MaxUploads == 1
MaxAudit == 2
MaxNameLen == 5
MaxServed == 2

Workers == {"w1", "w2"}

\* ------------------------------------------------------------ environment
EnvNames == {"SMS_PROVIDER", "HUBTEL_API_KEY", "HUBTEL_API_SECRET",
             "MNOTIFY_API_KEY", "PAYMENT_GATEWAY", "HUBTEL_MERCHANT_ID",
             "HUBTEL_PAYMENT_API_KEY", "PAYSTACK_SECRET_KEY"}

EmptyEnv == [n \in EnvNames |-> None]

SetEnv(e, kv) == [n \in EnvNames |-> IF n \in DOMAIN kv THEN kv[n] ELSE e[n]]

\* The SMS halves of the environments explored.
SmsEnvs ==
    { [x \in {} |-> None],
      [SMS_PROVIDER |-> "hubtel", HUBTEL_API_KEY |-> "k", HUBTEL_API_SECRET |-> "s"],
      [SMS_PROVIDER |-> "mnotify"],
      [SMS_PROVIDER |-> "console"] }

\* The payment halves of the environments explored.
PayEnvs ==
    { [x \in {} |-> None],
      [PAYMENT_GATEWAY |-> "hubtel", HUBTEL_MERCHANT_ID |-> "m",
       HUBTEL_PAYMENT_API_KEY |-> "k"],
      [PAYMENT_GATEWAY |-> "hubtel", HUBTEL_MERCHANT_ID |-> "m"],
      [PAYMENT_GATEWAY |-> "paystack", PAYSTACK_SECRET_KEY |-> "k"],
      [PAYMENT_GATEWAY |-> "paystack"],
      [PAYMENT_GATEWAY |-> "simulation"] }

Envs == { SetEnv(SetEnv(EmptyEnv, s), p) : s \in SmsEnvs, p \in PayEnvs }

os_getenv(name, default) == IF env[name] = None THEN default ELSE env[name]

\* ------------------------------------------------------------ Python bits
\* dict.get(key, default)
Get(d, key, default) == IF key \in DOMAIN d THEN d[key] ELSE default

IsException(r) == "exception" \in DOMAIN r

DigitChar == <<"0", "1", "2", "3", "4", "5", "6", "7", "8", "9">>

TwoDigits(n) == <<DigitChar[(n \div 10) + 1], DigitChar[(n % 10) + 1]>>

\* datetime.now().strftime('%Y%m%d%H%M%S'): second t of 2025-01-01
strftime(t) ==
    <<"2", "0", "2", "5", "0", "1", "0", "1">>
        \o TwoDigits((t \div 3600) % 24)
        \o TwoDigits((t \div 60) % 60)
        \o TwoDigits(t % 60)

\* ------------------------------------------------- remote services' answers
\* What requests.post(...) of a charge can bring back: response.json() of the
\* Hubtel or the Paystack API, or an exception raised by the call.
PaymentReplies ==
    { [exception |-> "ConnectionError"],
      [ResponseCode |-> "0000", TransactionId |-> "T1", Message |-> "Approved"],
      [ResponseCode |-> "0000"],
      [ResponseCode |-> "2001", Message |-> "Declined"],
      [status |-> TRUE, data |-> [id |-> "P1"], message |-> "Charge attempted"],
      [status |-> FALSE, message |-> "Declined"] }

\* What requests.get/post of an SMS can bring back.
SmsReplies ==
    { [exception |-> "ConnectionError"],
      [status |-> "success", message |-> "sent"],
      [status |-> "error", message |-> "rejected"],
      [Status |-> "0", MessageId |-> "M1"] }

\* --------------------------------------------------------- payment gateway
\* Each gateway operator yields [net |-> the outbound calls made,
\*                               ret |-> the dict returned, or the exception raised].
process_hubtel_payment(provider, phone_number, amount, purpose, donor_name, reference, reply) ==
    LET merchant_id == env["HUBTEL_MERCHANT_ID"]
        api_key == env["HUBTEL_PAYMENT_API_KEY"]
    IN  IF ~(merchant_id # None /\ api_key # None)
        THEN [net |-> <<>>,
              ret |-> [status |-> "error",
                       message |-> "Payment gateway not configured"]]
        ELSE IF IsException(reply)
        THEN [net |-> <<"POST api.hubtel.com">>, ret |-> reply]
        ELSE [net |-> <<"POST api.hubtel.com">>,
              ret |-> [status |-> IF Get(reply, "ResponseCode", None) = "0000"
                                  THEN "success" ELSE "error",
                       reference |-> reference,
                       transaction_id |-> Get(reply, "TransactionId", None),
                       message |-> Get(reply, "Message", "Payment processed")]]

\* a Paystack charge that posts without looking at its secret key
process_paystack_payment_unchecked(provider, phone_number, amount, purpose, donor_name, reference, reply) ==
    IF IsException(reply)
    THEN [net |-> <<"POST api.paystack.co">>, ret |-> reply]
    ELSE [net |-> <<"POST api.paystack.co">>,
          ret |-> [status |-> IF "status" \in DOMAIN reply /\ reply.status
                              THEN "success" ELSE "error",
                   reference |-> reference,
                   transaction_id |->
                       Get(Get(reply, "data", [x \in {} |-> None]), "id", None),
                   message |-> Get(reply, "message", "Payment processed")]]

process_paystack_payment(provider, phone_number, amount, purpose, donor_name, reference, reply) ==
    LET secret_key == env["PAYSTACK_SECRET_KEY"]
    IN  IF secret_key = None
        THEN [net |-> <<>>,
              ret |-> [status |-> "error",
                       message |-> "Payment gateway not configured"]]
        ELSE IF IsException(reply)
        THEN [net |-> <<"POST api.paystack.co">>, ret |-> reply]
        ELSE [net |-> <<"POST api.paystack.co">>,
              ret |-> [status |-> IF "status" \in DOMAIN reply /\ reply.status
                                  THEN "success" ELSE "error",
                       reference |-> reference,
                       transaction_id |->
                           Get(Get(reply, "data", [x \in {} |-> None]), "id", None),
                       message |-> Get(reply, "message", "Payment processed")]]

\* The reference minted for an attempt started at second t.
MintReference(t) == <<"S", "D", "A">> \o strftime(t)

\* str(e) of a caught exception becomes the message of an error result.
ErrorResult(r) == [status |-> "error", message |-> r.exception]

process_mobile_money(provider, phone_number, amount, purpose, donor_name, reply) ==
    LET gateway == os_getenv("PAYMENT_GATEWAY", "hubtel")
        reference == MintReference(now)
        r == IF gateway = "hubtel"
             THEN process_hubtel_payment(provider, phone_number, amount, purpose,
                                         donor_name, reference, reply)
             ELSE IF gateway = "paystack"
             THEN process_paystack_payment(provider, phone_number, amount, purpose,
                                           donor_name, reference, reply)
             ELSE [net |-> <<>>,
                   ret |-> [status |-> "success",
                            reference |-> reference,
                            message |-> "Payment processed (simulation mode)",
                            transaction_id |-> <<"T", "E", "S", "T", "_">> \o reference]]
    IN  IF IsException(r.ret)
        THEN [net |-> r.net, ret |-> ErrorResult(r.ret)]
        ELSE r

\* ------------------------------------------------------ notification gateway
send_sms_hubtel(phone_number, message, reply) ==
    LET api_key == env["HUBTEL_API_KEY"]
        api_secret == env["HUBTEL_API_SECRET"]
    IN  IF api_key = None \/ api_secret = None
        THEN [net |-> <<>>,
              ret |-> [status |-> "error", message |-> "SMS provider not configured"]]
        ELSE [net |-> <<"GET smsc.hubtel.com">>, ret |-> reply]

send_sms_mnotify(phone_number, message, reply) ==
    LET api_key == env["MNOTIFY_API_KEY"]
    IN  IF api_key = None
        THEN [net |-> <<>>,
              ret |-> [status |-> "error", message |-> "SMS provider not configured"]]
        ELSE [net |-> <<"POST api.mnotify.com">>, ret |-> reply]

SmsProvider == os_getenv("SMS_PROVIDER", "hubtel")

\* send_sms without its try/except: the provider's exception leaves the function
send_sms_uncaught(phone_number, message, reply) ==
    LET provider == SmsProvider
    IN  IF provider = "hubtel"
        THEN send_sms_hubtel(phone_number, message, reply)
        ELSE IF provider = "mnotify"
        THEN send_sms_mnotify(phone_number, message, reply)
        ELSE [net |-> <<>>,
              ret |-> [status |-> "success",
                       message |-> "SMS logged (no provider configured)"]]

send_sms(phone_number, message, reply) ==
    LET provider == SmsProvider
        r == IF provider = "hubtel"
             THEN send_sms_hubtel(phone_number, message, reply)
             ELSE IF provider = "mnotify"
             THEN send_sms_mnotify(phone_number, message, reply)
             ELSE [net |-> <<>>,
                   ret |-> [status |-> "success",
                            message |-> "SMS logged (no provider configured)"]]
    IN  IF IsException(r.ret)
        THEN [net |-> r.net, ret |-> ErrorResult(r.ret)]
        ELSE r

\* ------------------------------------------------------------ admin accounts
\* werkzeug's generate_password_hash: a salted one-way digest of the password
generate_password_hash(password, salt) ==
    [salt |-> salt, digest |-> <<"pbkdf2", salt, password>>]

\* a comparison that accepts any password for a stored hash
check_password_hash_any(pwhash, password) ==
    "digest" \in DOMAIN pwhash

check_password_hash(pwhash, password) ==
    pwhash.digest = <<"pbkdf2", pwhash.salt, password>>

default_admins ==
    << <<"admin", "sda2025", "Administrator", "admin@sefwihumjibresda.org">>,
       <<"pastor", "pastor123", "Pastor", "pastor@sefwihumjibresda.org">>,
       <<"elder", "elder456", "Elder", "elder@sefwihumjibresda.org">> >>

\* Table admins after init_db.
init_db_admins ==
    [i \in 1..Len(default_admins) |->
        [id |-> i,
         username |-> default_admins[i][1],
         password_hash |-> generate_password_hash(default_admins[i][2],
                                                  <<"salt", i>>),
         role |-> default_admins[i][3],
         email |-> default_admins[i][4]]]

\* ------------------------------------------------------------ donation flow
Empty == [x \in {} |-> None]

Without(d, key) == [k \in DOMAIN d \ {key} |-> d[k]]

FullDonation ==
    [donor_name |-> "Ama", donor_email |-> "ama@example.org",
     donor_phone |-> "0551234567", amount |-> 50, purpose |-> "tithe",
     provider |-> "mtn"]

\* The request bodies explored: complete, one key absent, falsy values, empty.
DonationRequests ==
    {FullDonation, Empty,
     [FullDonation EXCEPT !.amount = 0],
     [FullDonation EXCEPT !.donor_name = ""]}
        \cup { Without(FullDonation, k) : k \in DOMAIN FullDonation }

RequiredFields == {"donor_name", "donor_phone", "amount", "purpose", "provider"}

\* bool(data.get(f)) of a request field
FieldTruthy(data, f) ==
    f \in DOMAIN data /\ (IF f = "amount" THEN data[f] # 0 ELSE data[f] # "")

\* a validation that also insists on donor_email
AllRequired_with_email(data) ==
    \A f \in RequiredFields \cup {"donor_email"} : FieldTruthy(data, f)

\* all([donor_name, donor_phone, amount, purpose, provider])
AllRequired(data) == \A f \in RequiredFields : FieldTruthy(data, f)

Log(w, events) == [hist EXCEPT ![w] = @ \o events]

\* UNIQUE(reference_number) of table donations
ReferenceTaken(ref) == \E i \in 1..Len(donations) : donations[i].reference_number = ref

\* lines 596-606: read the request, reject it when a required field is falsy
process_donation_validate(w, data) ==
    /\ pc[w] = "idle"
    /\ nattempts < MaxAttempts
    /\ nattempts' = nattempts + 1
    /\ request' = [request EXCEPT ![w] = data]
    /\ IF ~AllRequired(data)
       THEN /\ response' = [response EXCEPT ![w] =
                   [code |-> 400, body |-> [error |-> "Missing required fields"]]]
            /\ pc' = [pc EXCEPT ![w] = "done"]
       ELSE /\ pc' = [pc EXCEPT ![w] = "charge"]
            /\ UNCHANGED response
    /\ UNCHANGED <<env, now, payment_result, sms_result, lastrowid, hist, donations>>
    /\ UNCHANGED <<mediaVars, loginVars, contact_messages, last>>

\* lines 610-612 and 644-649: charge, and answer 400 when the charge failed
process_donation_charge(w, reply) ==
    /\ pc[w] = "charge"
    /\ LET data == request[w]
           r == process_mobile_money(data.provider, data.donor_phone, data.amount,
                                     data.purpose, data.donor_name, reply)
       IN  /\ payment_result' = [payment_result EXCEPT ![w] = r.ret]
           /\ hist' = Log(w, r.net \o <<"charge " \o r.ret.status>>)
           /\ IF r.ret.status = "success"
              THEN /\ pc' = [pc EXCEPT ![w] = "save"]
                   /\ UNCHANGED response
              ELSE /\ pc' = [pc EXCEPT ![w] = "done"]
                   /\ response' = [response EXCEPT ![w] =
                          [code |-> 400,
                           body |-> [success |-> FALSE, error |-> r.ret.message]]]
    /\ UNCHANGED <<env, now, nattempts, request, sms_result, lastrowid, donations>>
    /\ UNCHANGED <<mediaVars, loginVars, contact_messages, last>>

\* The row process_donation inserts (lines 619-624).
DonationRow(data, reference, transaction_id) ==
    [id |-> Len(donations) + 1,
     donor_name |-> data.donor_name,
     donor_email |-> Get(data, "donor_email", None),
     donor_phone |-> data.donor_phone,
     amount |-> data.amount,
     purpose |-> data.purpose,
     provider |-> data.provider,
     reference_number |-> reference,
     status |-> "completed",
     transaction_id |-> transaction_id]

\* a save step that swallows the sqlite3 error and goes on to the SMS
process_donation_save_lenient(w, dbOk) ==
    /\ pc[w] = "save"
    /\ LET reference == payment_result[w].reference
           transaction_id == Get(payment_result[w], "transaction_id", "")
       IN  IF dbOk /\ ~ReferenceTaken(reference)
           THEN /\ donations' = Append(donations,
                                   DonationRow(request[w], reference, transaction_id))
                /\ lastrowid' = [lastrowid EXCEPT ![w] = Len(donations) + 1]
                /\ hist' = Log(w, <<"commit">>)
           ELSE UNCHANGED <<donations, lastrowid, hist>>
    /\ pc' = [pc EXCEPT ![w] = "sms"]
    /\ UNCHANGED <<env, now, nattempts, request, payment_result, sms_result, response>>
    /\ UNCHANGED <<mediaVars, loginVars, contact_messages, last>>

\* lines 613-626 and 650-652: INSERT and commit; an sqlite3 error (the UNIQUE
\* constraint, or the store failing: dbOk = FALSE) is answered with 500
process_donation_save(w, dbOk) ==
    /\ pc[w] = "save"
    /\ LET reference == payment_result[w].reference
           transaction_id == Get(payment_result[w], "transaction_id", "")
       IN  IF dbOk /\ ~ReferenceTaken(reference)
           THEN /\ donations' = Append(donations,
                                   DonationRow(request[w], reference, transaction_id))
                /\ lastrowid' = [lastrowid EXCEPT ![w] = Len(donations) + 1]
                /\ hist' = Log(w, <<"commit">>)
                /\ pc' = [pc EXCEPT ![w] = "sms"]
                /\ UNCHANGED response
           ELSE /\ response' = [response EXCEPT ![w] =
                       [code |-> 500, body |-> [error |-> "Failed to process donation"]]]
                /\ pc' = [pc EXCEPT ![w] = "done"]
                /\ hist' = Log(w, <<IF dbOk THEN "IntegrityError" ELSE "OperationalError">>)
                /\ UNCHANGED <<donations, lastrowid>>
    /\ UNCHANGED <<env, now, nattempts, request, payment_result, sms_result>>
    /\ UNCHANGED <<mediaVars, loginVars, contact_messages, last>>

\* lines 628-643 and 650-652: send the confirmation SMS and answer success;
\* an exception leaving send_sms would be answered with 500
process_donation_notify(w, reply) ==
    /\ pc[w] = "sms"
    /\ LET reference == payment_result[w].reference
           transaction_id == Get(payment_result[w], "transaction_id", "")
           r == send_sms(request[w].donor_phone, reference, reply)
       IN  /\ hist' = Log(w, <<"send_sms">> \o r.net)
           /\ sms_result' = [sms_result EXCEPT ![w] = r.ret]
           /\ response' = [response EXCEPT ![w] =
                  IF IsException(r.ret)
                  THEN [code |-> 500, body |-> [error |-> "Failed to process donation"]]
                  ELSE [code |-> 200,
                        body |-> [success |-> TRUE,
                                  reference |-> reference,
                                  transaction_id |-> transaction_id,
                                  message |-> "Donation processed successfully",
                                  sms_sent |-> Get(r.ret, "status", None) = "success"]]]
    /\ pc' = [pc EXCEPT ![w] = "done"]
    /\ UNCHANGED <<env, now, nattempts, request, payment_result, lastrowid,
                   donations>>
    /\ UNCHANGED <<mediaVars, loginVars, contact_messages, last>>

\* The response has been sent; the worker thread takes the next request.
process_donation_return(w) ==
    /\ pc[w] = "done"
    /\ pc' = [pc EXCEPT ![w] = "idle"]
    /\ request' = [request EXCEPT ![w] = Empty]
    /\ lastrowid' = [lastrowid EXCEPT ![w] = 0]
    /\ hist' = [hist EXCEPT ![w] = <<>>]
    /\ payment_result' = [payment_result EXCEPT ![w] = Empty]
    /\ sms_result' = [sms_result EXCEPT ![w] = Empty]
    /\ response' = [response EXCEPT ![w] = Empty]
    /\ UNCHANGED <<env, now, nattempts, donations>>
    /\ UNCHANGED <<mediaVars, loginVars, contact_messages, last>>

\* The wall clock reaches the next second.
Tick ==
    /\ now < MaxClock
    /\ now' = now + 1
    /\ UNCHANGED <<env, nattempts, pc, request, payment_result, sms_result,
                   response, lastrowid, hist, donations>>
    /\ UNCHANGED <<mediaVars, loginVars, contact_messages, last>>

Init ==
    /\ env \in Envs
    /\ now = 0
    /\ nattempts = 0
    /\ pc = [w \in Workers |-> "idle"]
    /\ request = [w \in Workers |-> Empty]
    /\ payment_result = [w \in Workers |-> Empty]
    /\ sms_result = [w \in Workers |-> Empty]
    /\ response = [w \in Workers |-> Empty]
    /\ lastrowid = [w \in Workers |-> 0]
    /\ hist = [w \in Workers |-> <<>>]
    /\ donations = <<>>
    /\ admins = init_db_admins
    /\ photos = <<>>
    /\ videos = <<>>
    /\ documents = <<>>
    /\ news = <<>>
    /\ storage = {}
    /\ nuploads = 0
    /\ audit = <<>>
    /\ contact_messages = <<>>
    /\ last = Empty

\* The handlers that read no environment variable start from the bare one.
InitSite == Init /\ env = EmptyEnv

NextDonation ==
    \/ Tick
    \/ \E w \in Workers, data \in DonationRequests : process_donation_validate(w, data)
    \/ \E w \in Workers, reply \in PaymentReplies : process_donation_charge(w, reply)
    \/ \E w \in Workers, dbOk \in BOOLEAN : process_donation_save(w, dbOk)
    \/ \E w \in Workers, reply \in SmsReplies : process_donation_notify(w, reply)
    \/ \E w \in Workers : process_donation_return(w)

SpecDonation == Init /\ [][NextDonation]_vars

\* ------------------------------------------------------------------ login
TruthyStr(v) == v # None /\ v # ""

\* The usernames and passwords tried; None is a key absent from the JSON body.
LoginUsernames == {None, "", "admin", "pastor", "nobody"}
LoginPasswords == {None, "", "sda2025", "pastor123", "wrong"}

\* SELECT password_hash, role, email FROM admins WHERE username = ?; fetchone()
FetchAdmin(username) ==
    IF \E i \in 1..Len(admins) : admins[i].username = username
    THEN admins[CHOOSE i \in 1..Len(admins) : admins[i].username = username]
    ELSE Empty

\* The (status code, body) admin_login returns, and the line it logs.
LoginOutcome(username, password, dbOk) ==
    IF ~TruthyStr(username) \/ ~TruthyStr(password)
    THEN [response |-> [code |-> 400,
                        body |-> [success |-> FALSE, message |-> "Missing credentials"]],
          logged |-> <<>>]
    ELSE IF ~dbOk
    THEN [response |-> [code |-> 500,
                        body |-> [success |-> FALSE, message |-> "Server error"]],
          logged |-> <<[level |-> "ERROR", line |-> "Login error"]>>]
    ELSE LET result == FetchAdmin(username)
         IN  IF result # Empty /\ check_password_hash(result.password_hash, password)
             THEN [response |-> [code |-> 200,
                                 body |-> [success |-> TRUE,
                                           username |-> username,
                                           role |-> result.role,
                                           email |-> result.email]],
                   logged |-> <<[level |-> "INFO", line |-> "Successful login",
                                 username |-> username]>>]
             ELSE [response |-> [code |-> 401,
                                 body |-> [success |-> FALSE,
                                           message |-> "Invalid credentials"]],
                   logged |-> <<[level |-> "WARNING", line |-> "Failed login attempt",
                                 username |-> username]>>]

admin_login(username, password, dbOk) ==
    /\ Len(audit) < MaxAudit
    /\ LET out == LoginOutcome(username, password, dbOk)
       IN  /\ last' = [handler |-> "admin_login", username |-> username,
                       password |-> password, dbOk |-> dbOk,
                       response |-> out.response]
           /\ audit' = audit \o out.logged
    /\ UNCHANGED <<env, now, donationVars, mediaVars, admins, contact_messages>>

NextLogin ==
    \/ Tick
    \/ \E u \in LoginUsernames, p \in LoginPasswords, dbOk \in BOOLEAN :
           admin_login(u, p, dbOk)

SpecLogin == InitSite /\ [][NextLogin]_vars

\* ------------------------------------------------------------- file uploads
ALLOWED_IMAGES ==
    { <<"p", "n", "g">>, <<"j", "p", "g">>, <<"j", "p", "e", "g">>,
      <<"g", "i", "f">>, <<"w", "e", "b", "p">> }

ALLOWED_VIDEOS ==
    { <<"m", "p", "4">>, <<"a", "v", "i">>, <<"m", "o", "v">>,
      <<"w", "m", "v">>, <<"w", "e", "b", "m">> }

ALLOWED_DOCS == { <<"p", "d", "f">>, <<"d", "o", "c">>, <<"d", "o", "c", "x">> }

UpperChars == <<"A", "B", "C", "D", "E", "F", "G", "H", "I", "J", "K", "L", "M",
                "N", "O", "P", "Q", "R", "S", "T", "U", "V", "W", "X", "Y", "Z">>

LowerChars == <<"a", "b", "c", "d", "e", "f", "g", "h", "i", "j", "k", "l", "m",
                "n", "o", "p", "q", "r", "s", "t", "u", "v", "w", "x", "y", "z">>

\* str.lower()
Lower(str) ==
    [i \in 1..Len(str) |->
        IF \E k \in 1..Len(UpperChars) : UpperChars[k] = str[i]
        THEN LowerChars[CHOOSE k \in 1..Len(UpperChars) : UpperChars[k] = str[i]]
        ELSE str[i]]

Contains(str, c) == \E i \in 1..Len(str) : str[i] = c

\* filename.rsplit('.', 1)[1], for a filename that holds a '.'
AfterLastDot(filename) ==
    LET i == CHOOSE k \in 1..Len(filename) :
                 /\ filename[k] = "."
                 /\ \A j \in (k + 1)..Len(filename) : filename[j] # "."
    IN  SubSeq(filename, i + 1, Len(filename))

\* an extension check that forgets .lower()
allowed_file_case_sensitive(filename, allowed_extensions) ==
    /\ Contains(filename, ".")
    /\ AfterLastDot(filename) \in allowed_extensions

allowed_file(filename, allowed_extensions) ==
    /\ Contains(filename, ".")
    /\ Lower(AfterLastDot(filename)) \in allowed_extensions

\* str.strip("._")
RECURSIVE StripDotUnderscore(_)
StripDotUnderscore(str) ==
    IF str = <<>> THEN str
    ELSE IF Head(str) \in {".", "_"} THEN StripDotUnderscore(Tail(str))
    ELSE IF str[Len(str)] \in {".", "_"}
         THEN StripDotUnderscore(SubSeq(str, 1, Len(str) - 1))
    ELSE str

\* werkzeug's secure_filename on names of letters, digits, '.' and '_': such
\* characters are kept, and leading and trailing '.' and '_' are stripped
secure_filename(str) == StripDotUnderscore(str)

\* datetime.now().strftime('%Y%m%d_%H%M%S')
strftime_underscore(t) ==
    SubSeq(strftime(t), 1, 8) \o <<"_">> \o SubSeq(strftime(t), 9, 14)

\* The name a file uploaded at second t is stored under.
StoredName(t, filename) ==
    secure_filename(strftime_underscore(t) \o <<"_">> \o filename)

StoredNewsName(t, filename) ==
    secure_filename(<<"n", "e", "w", "s", "_">> \o strftime_underscore(t)
                        \o <<"_">> \o filename)

\* The file names uploaded.
UploadNames ==
    { <<"s", "e", "r", "v", "i", "c", "e", ".", "e", "x", "e">>,
      <<"a", ".", "P", "N", "G">>,
      <<"c", ".", "m", "p", "4">>,
      <<"d", ".", "p", "d", "f">> }

\* The file lists uploaded under one field: one file, or two.
Batches ==
    { <<f>> : f \in UploadNames } \cup { <<f, g>> : f \in UploadNames, g \in UploadNames }

\* The first exception of a request, if any: connecting to the store, saving
\* or inserting the at-th file, or the commit.
NoFault == [op |-> "none", at |-> 0]

UploadFaults ==
    {NoFault, [op |-> "connect", at |-> 0], [op |-> "commit", at |-> 0]}
        \cup { [op |-> o, at |-> i] : o \in {"save", "insert"}, i \in {1, 2} }

\* The for loop of an upload handler from file i on: the stored names of the
\* files saved, of the rows inserted, and whether an exception ended it.
RECURSIVE UploadLoop(_, _, _, _, _, _)
UploadLoop(files, allowed_extensions, fault, i, saved, inserted) ==
    IF i > Len(files)
    THEN [saved |-> saved, inserted |-> inserted, raised |-> FALSE]
    ELSE IF ~allowed_file(files[i], allowed_extensions)
    THEN UploadLoop(files, allowed_extensions, fault, i + 1, saved, inserted)
    ELSE IF fault = [op |-> "save", at |-> i]
    THEN [saved |-> saved, inserted |-> inserted, raised |-> TRUE]
    ELSE IF fault = [op |-> "insert", at |-> i]
    THEN [saved |-> saved \cup {StoredName(now, files[i])},
          inserted |-> inserted, raised |-> TRUE]
    ELSE UploadLoop(files, allowed_extensions, fault, i + 1,
                    saved \cup {StoredName(now, files[i])},
                    Append(inserted, StoredName(now, files[i])))

\* an upload whose INSERTs are committed one by one, so that the rows written
\* before an exception stay
UploadOutcome_autocommit(request_files, field, allowed_extensions, fault, what) ==
    IF field \notin DOMAIN request_files
    THEN [saved |-> {}, committed |-> <<>>,
          response |-> [code |-> 400, body |-> [error |-> <<"No", what, "provided">>]]]
    ELSE IF fault.op = "connect"
    THEN [saved |-> {}, committed |-> <<>>,
          response |-> [code |-> 500, body |-> [error |-> "Upload failed"]]]
    ELSE LET loop == UploadLoop(request_files[field], allowed_extensions, fault,
                                1, {}, <<>>)
         IN  IF loop.raised \/ fault.op = "commit"
             THEN [saved |-> loop.saved, committed |-> loop.inserted,
                   response |-> [code |-> 500, body |-> [error |-> "Upload failed"]]]
             ELSE [saved |-> loop.saved, committed |-> loop.inserted,
                   response |-> [code |-> 200,
                                 body |-> [success |-> TRUE,
                                           files |-> loop.inserted,
                                           message |-> <<Len(loop.inserted), what,
                                                         "uploaded successfully">>]]]

\* What an upload handler does with request.files[field] under a fault:
\* the files written, the rows committed and the response.
UploadOutcome(request_files, field, allowed_extensions, fault, what) ==
    IF field \notin DOMAIN request_files
    THEN [saved |-> {}, committed |-> <<>>,
          response |-> [code |-> 400, body |-> [error |-> <<"No", what, "provided">>]]]
    ELSE IF fault.op = "connect"
    THEN [saved |-> {}, committed |-> <<>>,
          response |-> [code |-> 500, body |-> [error |-> "Upload failed"]]]
    ELSE LET loop == UploadLoop(request_files[field], allowed_extensions, fault,
                                1, {}, <<>>)
         IN  IF loop.raised \/ fault.op = "commit"
             THEN [saved |-> loop.saved, committed |-> <<>>,
                   response |-> [code |-> 500, body |-> [error |-> "Upload failed"]]]
             ELSE [saved |-> loop.saved, committed |-> loop.inserted,
                   response |-> [code |-> 200,
                                 body |-> [success |-> TRUE,
                                           files |-> loop.inserted,
                                           message |-> <<Len(loop.inserted), what,
                                                         "uploaded successfully">>]]]

Store(dir, names) == storage \cup { [dir |-> dir, name |-> n] : n \in names }

UploadForms ==
    { Empty,
      [category |-> "events", title |-> "Camp meeting", description |-> "2025",
       uploaded_by |-> "pastor"] }

upload_photos(request_files, form, fault) ==
    /\ nuploads < MaxUploads
    /\ nuploads' = nuploads + 1
    /\ LET out == UploadOutcome(request_files, "photos", ALLOWED_IMAGES, fault, "photos")
       IN  /\ storage' = Store("photos", out.saved)
           /\ photos' = photos \o
                  [k \in 1..Len(out.committed) |->
                      [id |-> Len(photos) + k,
                       filename |-> out.committed[k],
                       category |-> Get(form, "category", "gallery"),
                       description |-> Get(form, "description", ""),
                       uploaded_by |-> Get(form, "uploaded_by", "admin")]]
           /\ last' = [handler |-> "upload_photos", files |-> request_files,
                       fault |-> fault, response |-> out.response]
    /\ UNCHANGED <<env, now, donationVars, loginVars, contact_messages,
                   videos, documents, news>>

upload_videos(request_files, form, fault) ==
    /\ nuploads < MaxUploads
    /\ nuploads' = nuploads + 1
    /\ LET out == UploadOutcome(request_files, "videos", ALLOWED_VIDEOS, fault, "videos")
       IN  /\ storage' = Store("videos", out.saved)
           /\ videos' = videos \o
                  [k \in 1..Len(out.committed) |->
                      [id |-> Len(videos) + k,
                       filename |-> out.committed[k],
                       title |-> Get(form, "title", "Untitled"),
                       description |-> Get(form, "description", ""),
                       uploaded_by |-> Get(form, "uploaded_by", "admin")]]
           /\ last' = [handler |-> "upload_videos", files |-> request_files,
                       fault |-> fault, response |-> out.response]
    /\ UNCHANGED <<env, now, donationVars, loginVars, contact_messages,
                   photos, documents, news>>

upload_documents(request_files, form, fault) ==
    /\ nuploads < MaxUploads
    /\ nuploads' = nuploads + 1
    /\ LET out == UploadOutcome(request_files, "documents", ALLOWED_DOCS, fault,
                                "documents")
       IN  /\ storage' = Store("documents", out.saved)
           /\ documents' = documents \o
                  [k \in 1..Len(out.committed) |->
                      [id |-> Len(documents) + k,
                       filename |-> out.committed[k],
                       title |-> Get(form, "title", "Untitled"),
                       category |-> Get(form, "category", "other"),
                       uploaded_by |-> Get(form, "uploaded_by", "admin")]]
           /\ last' = [handler |-> "upload_documents", files |-> request_files,
                       fault |-> fault, response |-> out.response]
    /\ UNCHANGED <<env, now, donationVars, loginVars, contact_messages,
                   photos, videos, news>>

\* ------------------------------------------------------------------- news
NewsForms ==
    { [title |-> "Harvest", content |-> "Thanksgiving service", author |-> "elder"],
      [content |-> "Thanksgiving service", author |-> "elder"] }

NewsFaults == {NoFault, [op |-> "save", at |-> 1], [op |-> "insert", at |-> 1]}

\* What create_news does: the file written, the row committed and the response.
NewsOutcome(request_files, form, fault) ==
    IF "image" \notin DOMAIN request_files
    THEN [saved |-> {}, committed |-> <<>>,
          response |-> [code |-> 400, body |-> [error |-> "No image provided"]]]
    ELSE IF \E f \in {"title", "content", "author"} : ~TruthyStr(Get(form, f, None))
    THEN [saved |-> {}, committed |-> <<>>,
          response |-> [code |-> 400, body |-> [error |-> "Missing required fields"]]]
    ELSE IF ~allowed_file(request_files.image, ALLOWED_IMAGES)
    THEN [saved |-> {}, committed |-> <<>>,
          response |-> [code |-> 400, body |-> [error |-> "Invalid image file"]]]
    ELSE IF fault.op = "save"
    THEN [saved |-> {}, committed |-> <<>>,
          response |-> [code |-> 500, body |-> [error |-> "Failed to create news"]]]
    ELSE IF fault.op = "insert"
    THEN [saved |-> {StoredNewsName(now, request_files.image)}, committed |-> <<>>,
          response |-> [code |-> 500, body |-> [error |-> "Failed to create news"]]]
    ELSE [saved |-> {StoredNewsName(now, request_files.image)},
          committed |-> <<StoredNewsName(now, request_files.image)>>,
          response |-> [code |-> 200,
                        body |-> [success |-> TRUE,
                                  news_id |-> Len(news) + 1,
                                  message |-> "News post created successfully"]]]

create_news(request_files, form, fault) ==
    /\ nuploads < MaxUploads
    /\ nuploads' = nuploads + 1
    /\ LET out == NewsOutcome(request_files, form, fault)
       IN  /\ storage' = Store("photos", out.saved)
           /\ news' = news \o
                  [k \in 1..Len(out.committed) |->
                      [id |-> Len(news) + k,
                       title |-> form.title,
                       content |-> form.content,
                       image_filename |-> out.committed[k],
                       author |-> form.author,
                       published |-> TRUE]]
           /\ last' = [handler |-> "create_news", files |-> request_files,
                       fault |-> fault, response |-> out.response]
    /\ UNCHANGED <<env, now, donationVars, loginVars, contact_messages,
                   photos, videos, documents>>

NextMedia ==
    \/ Tick
    \/ \E b \in Batches \cup {<<>>}, form \in UploadForms, fault \in UploadFaults :
           upload_photos(IF b = <<>> THEN Empty ELSE [photos |-> b], form, fault)
    \/ \E b \in Batches \cup {<<>>}, form \in UploadForms, fault \in UploadFaults :
           upload_videos(IF b = <<>> THEN Empty ELSE [videos |-> b], form, fault)
    \/ \E b \in Batches \cup {<<>>}, form \in UploadForms, fault \in UploadFaults :
           upload_documents(IF b = <<>> THEN Empty ELSE [documents |-> b], form, fault)
    \/ \E f \in UploadNames \cup {<<>>}, form \in NewsForms, fault \in NewsFaults :
           create_news(IF f = <<>> THEN Empty ELSE [image |-> f], form, fault)

SpecMedia == InitSite /\ [][NextMedia]_vars

\* The three multi-file upload handlers alone, every batch under every fault.
NextUpload ==
    \/ Tick
    \/ \E b \in Batches \cup {<<>>}, fault \in UploadFaults :
           upload_photos(IF b = <<>> THEN Empty ELSE [photos |-> b], Empty, fault)
    \/ \E b \in Batches \cup {<<>>}, fault \in UploadFaults :
           upload_videos(IF b = <<>> THEN Empty ELSE [videos |-> b], Empty, fault)
    \/ \E b \in Batches \cup {<<>>}, fault \in UploadFaults :
           upload_documents(IF b = <<>> THEN Empty ELSE [documents |-> b], Empty, fault)

SpecUpload == InitSite /\ [][NextUpload]_vars

\* ------------------------------------------------- allowed_file on its own
FileNameChars == {"p", "n", "g", "N", "."}

\* The file names the extension check is applied to: every name of up to
\* MaxNameLen characters, and the names the specification cites.
FileNames ==
    UNION { [1..n -> FileNameChars] : n \in 0..MaxNameLen }
        \cup { <<"p", "h", "o", "t", "o", ".", "P", "N", "G">>,
               <<"p", "h", "o", "t", "o">>,
               <<"p", "h", "o", "t", "o", ".">>,
               <<"a", ".", "p", "n", "g", ".", "e", "x", "e">>,
               <<"a", ".", "b", ".", "J", "p", "E", "g">>,
               <<"c", ".", "M", "P", "4">>,
               <<"d", ".", "d", "o", "c", "x">>,
               <<"d", ".", "p", "d", "f", "x">> }

AllowLists == {ALLOWED_IMAGES, ALLOWED_VIDEOS, ALLOWED_DOCS}

\* One evaluation of allowed_file(filename, allowed_extensions).
allowed_file_call(filename, allowed_extensions) ==
    /\ last = Empty
    /\ last' = [handler |-> "allowed_file", filename |-> filename,
                allowed |-> allowed_extensions,
                result |-> allowed_file(filename, allowed_extensions)]
    /\ UNCHANGED <<env, now, donationVars, mediaVars, loginVars, contact_messages>>

NextAllowed ==
    /\ last = Empty
    /\ \E f \in FileNames, a \in AllowLists : allowed_file_call(f, a)

SpecAllowed == InitSite /\ [][NextAllowed]_vars

\* ----------------------------------------------------------- contact form
FullContact ==
    [name |-> "Kofi", email |-> "kofi@example.org", subject |-> "Baptism",
     message |-> "When is the next class?"]

\* The request bodies explored: complete, a key absent, an empty value.
ContactRequests ==
    {FullContact, Without(FullContact, "message"), [FullContact EXCEPT !.email = ""]}

\* a handler that stores the message before it validates it
submit_contact_store_first(data, dbOk) ==
    /\ contact_messages' = contact_messages \o
           <<[id |-> Len(contact_messages) + 1,
              name |-> Get(data, "name", None), email |-> Get(data, "email", None),
              subject |-> Get(data, "subject", None),
              message |-> Get(data, "message", None), read |-> FALSE]>>
    /\ last' = [handler |-> "submit_contact", data |-> data,
                response |-> IF \E f \in DOMAIN FullContact :
                                    ~TruthyStr(Get(data, f, None))
                             THEN [code |-> 400,
                                   body |-> [error |-> "Missing required fields"]]
                             ELSE [code |-> 200,
                                   body |-> [success |-> TRUE,
                                             message |-> "Message sent successfully"]]]
    /\ UNCHANGED <<env, now, donationVars, mediaVars, loginVars>>

\* submit_contact: 400 when a field is falsy; else INSERT and commit. An
\* exception inside the try (dbOk = FALSE) is caught before the commit took
\* effect; the source ends inside that except clause, and whether the clause
\* returns an error or nothing the client is answered 500.
submit_contact(data, dbOk) ==
    /\ IF \E f \in DOMAIN FullContact : ~TruthyStr(Get(data, f, None))
       THEN /\ last' = [handler |-> "submit_contact", data |-> data,
                        response |-> [code |-> 400,
                                      body |-> [error |-> "Missing required fields"]]]
            /\ UNCHANGED contact_messages
       ELSE IF ~dbOk
       THEN /\ last' = [handler |-> "submit_contact", data |-> data,
                        response |-> [code |-> 500]]
            /\ UNCHANGED contact_messages
       ELSE /\ contact_messages' = contact_messages \o
                   <<[id |-> Len(contact_messages) + 1,
                      name |-> data.name, email |-> data.email,
                      subject |-> data.subject, message |-> data.message,
                      read |-> FALSE]>>
            /\ last' = [handler |-> "submit_contact", data |-> data,
                        response |-> [code |-> 200,
                                      body |-> [success |-> TRUE,
                                                message |-> "Message sent successfully"]]]
    /\ UNCHANGED <<env, now, donationVars, mediaVars, loginVars>>

\* ------------------------------------------------------ read-only endpoints
\* datetime.now().isoformat() of second t of 2025-01-01
isoformat(t) ==
    <<"2", "0", "2", "5", "-", "0", "1", "-", "0", "1", "T">>
        \o TwoDigits((t \div 3600) % 24) \o <<":">>
        \o TwoDigits((t \div 60) % 60) \o <<":">>
        \o TwoDigits(t % 60)

\* ORDER BY the insertion timestamp DESC: the rows latest first
Latest(rows) == [i \in 1..Len(rows) |-> rows[Len(rows) + 1 - i]]

\* the first n rows (LIMIT n)
Limit(rows, n) == SubSeq(rows, 1, IF Len(rows) < n THEN Len(rows) ELSE n)

\* SUM(amount)
RECURSIVE SumAmount(_)
SumAmount(rows) ==
    IF rows = <<>> THEN 0 ELSE Head(rows).amount + SumAmount(Tail(rows))

\* One atomic request to a handler that only reads.
Answer(handler, answer) ==
    /\ last' = [handler |-> handler, response |-> answer]
    /\ UNCHANGED <<env, now, donationVars, mediaVars, loginVars, contact_messages>>

health_check ==
    Answer("health_check",
           [code |-> 200,
            body |-> [status |-> "healthy", message |-> "Church API is running",
                      timestamp |-> isoformat(now)]])

list_news(dbOk) ==
    Answer("list_news",
           IF ~dbOk
           THEN [code |-> 500, body |-> [error |-> "Failed to fetch news"]]
           ELSE LET Published(r) == r.published
                    rows == Latest(SelectSeq(news, Published))
                IN  [code |-> 200,
                     body |-> [i \in 1..Len(rows) |->
                                  [id |-> rows[i].id, title |-> rows[i].title,
                                   content |-> rows[i].content,
                                   image |-> <<"/uploads/photos/">>
                                                \o rows[i].image_filename,
                                   author |-> rows[i].author]]])

ListCategories == {None, "", "events"}

list_photos(category, dbOk) ==
    Answer("list_photos",
           IF ~dbOk
           THEN [code |-> 500, body |-> [error |-> "Failed to fetch photos"]]
           ELSE LET InCategory(r) == r.category = category
                    rows == Latest(IF TruthyStr(category)
                                   THEN SelectSeq(photos, InCategory) ELSE photos)
                IN  [code |-> 200,
                     body |-> [i \in 1..Len(rows) |->
                                  [id |-> rows[i].id,
                                   url |-> <<"/uploads/photos/">> \o rows[i].filename,
                                   category |-> rows[i].category,
                                   description |-> rows[i].description]]])

list_videos(dbOk) ==
    Answer("list_videos",
           IF ~dbOk
           THEN [code |-> 500, body |-> [error |-> "Failed to fetch videos"]]
           ELSE LET rows == Latest(videos)
                IN  [code |-> 200,
                     body |-> [i \in 1..Len(rows) |->
                                  [id |-> rows[i].id,
                                   url |-> <<"/uploads/videos/">> \o rows[i].filename,
                                   title |-> rows[i].title,
                                   description |-> rows[i].description]]])

list_donations(dbOk) ==
    Answer("list_donations",
           IF ~dbOk
           THEN [code |-> 500, body |-> [error |-> "Failed to fetch donations"]]
           ELSE LET rows == Limit(Latest(donations), 100)
                IN  [code |-> 200,
                     body |-> [i \in 1..Len(rows) |->
                                  [id |-> rows[i].id, donor |-> rows[i].donor_name,
                                   amount |-> rows[i].amount,
                                   purpose |-> rows[i].purpose,
                                   provider |-> rows[i].provider,
                                   reference |-> rows[i].reference_number]]])

donation_stats(dbOk) ==
    Answer("donation_stats",
           IF ~dbOk
           THEN [code |-> 500, body |-> [error |-> "Failed to fetch statistics"]]
           ELSE LET Completed(r) == r.status = "completed"
                    done == SelectSeq(donations, Completed)
                    recent == Limit(Latest(done), 10)
                    purposes == { done[i].purpose : i \in 1..Len(done) }
                IN  [code |-> 200,
                     body |-> [total_count |-> Len(done),
                               total_amount |-> SumAmount(done),
                               by_purpose |->
                                   { LET OfPurpose(r) == r.purpose = p
                                     IN  [purpose |-> p,
                                          count |-> Len(SelectSeq(done, OfPurpose)),
                                          amount |-> SumAmount(SelectSeq(done, OfPurpose))] :
                                       p \in purposes },
                               recent |-> [i \in 1..Len(recent) |->
                                              [donor |-> recent[i].donor_name,
                                               amount |-> recent[i].amount,
                                               purpose |-> recent[i].purpose]]]])

\* ------------------------------------------------------- the whole backend
\* The site with a payment gateway and an SMS provider configured.
LiveEnv ==
    SetEnv(EmptyEnv,
           [PAYMENT_GATEWAY |-> "hubtel", HUBTEL_MERCHANT_ID |-> "m",
            HUBTEL_PAYMENT_API_KEY |-> "k", SMS_PROVIDER |-> "console"])

InitLive == Init /\ env = LiveEnv

\* the requests counted so far, over all the handlers that keep a count
Served == nattempts + nuploads + Len(audit) + Len(contact_messages)

SiteOpen == Served < MaxServed

\* One request thread; a sample of the requests of each handler.
SiteWorkers == {"w1"}

SiteDonations == {FullDonation, Without(FullDonation, "amount")}

SitePaymentReplies ==
    { [exception |-> "ConnectionError"],
      [ResponseCode |-> "0000", TransactionId |-> "T1", Message |-> "Approved"],
      [ResponseCode |-> "2001", Message |-> "Declined"] }

SiteLogins ==
    { <<None, "sda2025">>, <<"admin", "sda2025">>, <<"admin", "wrong">> }

SiteFiles == { <<"a", ".", "P", "N", "G">>, <<"c", ".", "m", "p", "4">> }

SiteFaults == {NoFault, [op |-> "insert", at |-> 1]}

NextSite ==
    \/ Tick
    \/ \E w \in SiteWorkers, data \in SiteDonations :
           SiteOpen /\ process_donation_validate(w, data)
    \/ \E w \in SiteWorkers, reply \in SitePaymentReplies : process_donation_charge(w, reply)
    \/ \E w \in SiteWorkers, dbOk \in BOOLEAN : process_donation_save(w, dbOk)
    \/ \E w \in SiteWorkers : process_donation_notify(w, [status |-> "success"])
    \/ \E w \in SiteWorkers : process_donation_return(w)
    \/ \E l \in SiteLogins, dbOk \in BOOLEAN : SiteOpen /\ admin_login(l[1], l[2], dbOk)
    \/ \E f \in SiteFiles \cup {<<>>}, fault \in SiteFaults :
           SiteOpen /\ upload_photos(IF f = <<>> THEN Empty ELSE [photos |-> <<f>>],
                                     Empty, fault)
    \/ \E f \in SiteFiles \cup {<<>>}, fault \in SiteFaults :
           SiteOpen /\ upload_videos(IF f = <<>> THEN Empty ELSE [videos |-> <<f>>],
                                     Empty, fault)
    \/ \E f \in SiteFiles \cup {<<>>}, fault \in SiteFaults :
           SiteOpen /\ upload_documents(IF f = <<>> THEN Empty
                                        ELSE [documents |-> <<f>>], Empty, fault)
    \/ \E f \in SiteFiles \cup {<<>>}, form \in NewsForms, fault \in SiteFaults :
           SiteOpen /\ create_news(IF f = <<>> THEN Empty ELSE [image |-> f], form, fault)
    \/ \E data \in ContactRequests, dbOk \in BOOLEAN :
           SiteOpen /\ submit_contact(data, dbOk)
    \/ health_check
    \/ \E dbOk \in BOOLEAN : list_news(dbOk)
    \/ \E category \in ListCategories, dbOk \in BOOLEAN : list_photos(category, dbOk)
    \/ \E dbOk \in BOOLEAN : list_videos(dbOk)
    \/ \E dbOk \in BOOLEAN : list_donations(dbOk)
    \/ \E dbOk \in BOOLEAN : donation_stats(dbOk)

SpecSite == InitLive /\ [][NextSite]_vars

\* ================================================================== claims
Has(h, e) == \E i \in 1..Len(h) : h[i] = e

\* position of the first e in h
Pos(h, e) == CHOOSE i \in 1..Len(h) : h[i] = e /\ \A j \in 1..(i - 1) : h[j] # e

ChargeSucceeded(w) ==
    "status" \in DOMAIN payment_result[w] /\ payment_result[w].status = "success"

\* C1: when process_donation has answered, a Donation row of the attempt exists
\* if and only if process_mobile_money reported status = success for it.
C1_RowIffChargeSucceeded ==
    \A w \in Workers :
        pc[w] = "done" => ((lastrowid[w] # 0) <=> ChargeSucceeded(w))

\* C2: once the Donation row of an attempt is committed it stays in the table,
\* and whatever send_sms yields the answer is 200 with success = true, the
\* reference and transaction id of the charge, and sms_sent the only trace of
\* the SMS outcome.
C2_SmsOutcomeOnlyInSmsSent ==
    \A w \in Workers :
        lastrowid[w] # 0 =>
            /\ lastrowid[w] <= Len(donations)
            /\ donations[lastrowid[w]].reference_number = payment_result[w].reference
            /\ pc[w] = "done" =>
                  /\ response[w].code = 200
                  /\ response[w].body =
                         [success |-> TRUE,
                          reference |-> payment_result[w].reference,
                          transaction_id |-> Get(payment_result[w], "transaction_id", ""),
                          message |-> "Donation processed successfully",
                          sms_sent |-> (Get(sms_result[w], "status", None) = "success")]

\* C2 witness: a committed donation answered after the provider call raised.
C2_Witness ==
    \E w \in Workers :
        /\ pc[w] = "done"
        /\ lastrowid[w] # 0
        /\ sms_result[w] = [status |-> "error", message |-> "ConnectionError"]
        /\ response[w].body.sms_sent = FALSE

\* C4: within an attempt the row is committed only after the gateway reported
\* success, and send_sms is invoked only after the row was committed.
C4_ChargeThenCommitThenSms ==
    \A w \in Workers :
        LET h == hist[w]
        IN  /\ Has(h, "charge success") <=> ChargeSucceeded(w)
            /\ Has(h, "commit") <=> lastrowid[w] # 0
            /\ Has(h, "commit") =>
                   Has(h, "charge success") /\ Pos(h, "charge success") < Pos(h, "commit")
            /\ Has(h, "send_sms") =>
                   Has(h, "commit") /\ Pos(h, "commit") < Pos(h, "send_sms")
            /\ \A i \in 1..Len(h) :
                   h[i] \in {"GET smsc.hubtel.com", "POST api.mnotify.com"} =>
                       Has(h, "send_sms") /\ Pos(h, "send_sms") < i

\* C4 witness: an attempt that charged, committed and called the SMS provider.
C4_Witness ==
    \E w \in Workers :
        /\ Has(hist[w], "send_sms")
        /\ Has(hist[w], "POST api.mnotify.com") \/ Has(hist[w], "GET smsc.hubtel.com")

DonationKeyMissing(data) == \E f \in RequiredFields : f \notin DOMAIN data

MissingFieldsResponse == [code |-> 400, body |-> [error |-> "Missing required fields"]]

\* C5: a request lacking donor_name, donor_phone, amount, purpose or provider is
\* answered 400 with no gateway call, no SMS and no row; a request lacking only
\* donor_email is not rejected and reaches the payment gateway.
C5_MissingFieldFailsFast ==
    \A w \in Workers :
        /\ (pc[w] # "idle" /\ DonationKeyMissing(request[w])) =>
               /\ pc[w] = "done"
               /\ response[w] = MissingFieldsResponse
               /\ hist[w] = <<>>
               /\ lastrowid[w] = 0
               /\ payment_result[w] = Empty
               /\ sms_result[w] = Empty
        /\ (pc[w] # "idle" /\ request[w] = Without(FullDonation, "donor_email")) =>
               /\ response[w] # MissingFieldsResponse
               /\ pc[w] = "done" => Has(hist[w], "charge success") \/ Has(hist[w], "charge error")

\* C5 witness: a request without amount was answered, and one without
\* donor_email was charged.
C5_Witness ==
    /\ \E w \in Workers :
           pc[w] = "done" /\ request[w] = Without(FullDonation, "amount")
    /\ \E w \in Workers :
           /\ request[w] = Without(FullDonation, "donor_email")
           /\ Has(hist[w], "charge success")

\* C8: no two donation attempts obtain the same reference.
C8_ReferencePerAttemptUnique ==
    \A w1, w2 \in Workers :
        (/\ w1 # w2
         /\ "reference" \in DOMAIN payment_result[w1]
         /\ "reference" \in DOMAIN payment_result[w2])
            => payment_result[w1].reference # payment_result[w2].reference

\* C9: every result of process_mobile_money carries the attempt's reference.
C9_EveryResultCarriesReference ==
    \A w \in Workers :
        payment_result[w] # Empty => "reference" \in DOMAIN payment_result[w]

\* C10: with SMS_PROVIDER unset or naming an unknown provider, send_sms makes no
\* network call and returns success, so the donation reports sms_sent = true.
C10_UnconfiguredSmsIsNoOp ==
    \A w \in Workers :
        (/\ pc[w] = "done"
         /\ sms_result[w] # Empty
         /\ env["SMS_PROVIDER"] \notin {"hubtel", "mnotify"})
            => /\ sms_result[w].status = "success"
               /\ response[w].body.sms_sent = TRUE
               /\ ~Has(hist[w], "GET smsc.hubtel.com")
               /\ ~Has(hist[w], "POST api.mnotify.com")

RowFiles(table, dir) == { [dir |-> dir, name |-> table[i].filename] : i \in 1..Len(table) }

\* The files the metadata rows speak of.
FilesWithRow ==
    RowFiles(photos, "photos") \cup RowFiles(videos, "videos")
        \cup RowFiles(documents, "documents")
        \cup { [dir |-> "photos", name |-> news[i].image_filename] : i \in 1..Len(news) }

\* C3: after every upload or news request, a metadata row of a file exists if
\* and only if that file was written to storage.
C3_RowIffFileStored == FilesWithRow = storage

UploadField(handler) ==
    IF handler = "upload_photos" THEN "photos"
    ELSE IF handler = "upload_videos" THEN "videos"
    ELSE IF handler = "upload_documents" THEN "documents"
    ELSE "image"

AllowList(handler) ==
    IF handler = "upload_videos" THEN ALLOWED_VIDEOS
    ELSE IF handler = "upload_documents" THEN ALLOWED_DOCS
    ELSE ALLOWED_IMAGES

\* the file names request.files carries under the handler's field
UploadedNames(handler, request_files) ==
    IF UploadField(handler) \notin DOMAIN request_files THEN {}
    ELSE IF handler = "create_news" THEN {request_files.image}
    ELSE { request_files[UploadField(handler)][i] :
               i \in 1..Len(request_files[UploadField(handler)]) }

IsUpload(r) ==
    "handler" \in DOMAIN r
        /\ r.handler \in {"upload_photos", "upload_videos", "upload_documents",
                          "create_news"}

\* C7: an upload carrying a file whose extension is not in the endpoint's
\* allow-list is answered 400 (a failure of the store, answered 500, set aside).
C7_DisallowedExtensionRejected ==
    (/\ IsUpload(last)
     /\ \E f \in UploadedNames(last.handler, last.files) :
            ~allowed_file(f, AllowList(last.handler))
     /\ last.response.code # 500)
        => last.response.code = 400

IsLogin(r) == "handler" \in DOMAIN r /\ r.handler = "admin_login"

\* the seed account a username/password pair matches, 0 if none
MatchingAdmin(username, password) ==
    IF \E i \in 1..Len(default_admins) :
           default_admins[i][1] = username /\ default_admins[i][2] = password
    THEN CHOOSE i \in 1..Len(default_admins) :
             default_admins[i][1] = username /\ default_admins[i][2] = password
    ELSE 0

InvalidCredentialsResponse ==
    [code |-> 401, body |-> [success |-> FALSE, message |-> "Invalid credentials"]]

\* the answer to a pair that reached the comparison with the stored hash
VerifiedLoginResponse(username, password) ==
    IF MatchingAdmin(username, password) # 0
    THEN [code |-> 200,
          body |-> [success |-> TRUE,
                    username |-> username,
                    role |-> default_admins[MatchingAdmin(username, password)][3],
                    email |-> default_admins[MatchingAdmin(username, password)][4]]]
    ELSE InvalidCredentialsResponse

\* C6, as stated: a matching pair is answered with success and the stored role
\* and email, every other pair with one and the same failure response.
C6_OneFailureResponse ==
    IsLogin(last) => last.response = VerifiedLoginResponse(last.username, last.password)

\* C6, amended: a request whose username or password is absent or empty is
\* answered 400 "Missing credentials"; otherwise a failing store lookup is
\* answered 500 "Server error"; otherwise a matching pair is answered with
\* success and the stored role and email, and every other pair with the same
\* 401 "Invalid credentials".
C6_LoginResponses ==
    IsLogin(last) =>
        last.response =
            IF last.username \in {None, ""} \/ last.password \in {None, ""}
            THEN [code |-> 400,
                  body |-> [success |-> FALSE, message |-> "Missing credentials"]]
            ELSE IF ~last.dbOk
            THEN [code |-> 500,
                  body |-> [success |-> FALSE, message |-> "Server error"]]
            ELSE VerifiedLoginResponse(last.username, last.password)

\* C6 witness: a known username with a wrong password and an unknown username
\* are both possible inputs answered 401; the state shown is the former.
C6_Witness ==
    /\ IsLogin(last)
    /\ last.username = "admin"
    /\ last.password = "pastor123"
    /\ last.response = InvalidCredentialsResponse

\* the configured gateway is Hubtel (also by default) or Paystack, and a
\* credential it needs is not set
GatewayLacksCredentials ==
    \/ /\ env["PAYMENT_GATEWAY"] \in {None, "hubtel"}
       /\ env["HUBTEL_MERCHANT_ID"] = None \/ env["HUBTEL_PAYMENT_API_KEY"] = None
    \/ /\ env["PAYMENT_GATEWAY"] = "paystack"
       /\ env["PAYSTACK_SECRET_KEY"] = None

\* C11: when the selected gateway lacks its credentials the charge returns
\* status = error, "Payment gateway not configured", without a network call,
\* and process_donation answers a failure carrying that message, writes no
\* Donation row and sends no SMS.
C11_UnconfiguredGatewayFails ==
    \A w \in Workers :
        (GatewayLacksCredentials /\ pc[w] \notin {"idle", "charge"}
             /\ request[w] \in {FullDonation, Without(FullDonation, "donor_email")})
            => /\ payment_result[w] =
                      [status |-> "error", message |-> "Payment gateway not configured"]
               /\ hist[w] = <<"charge error">>
               /\ pc[w] = "done"
               /\ response[w] =
                      [code |-> 400,
                       body |-> [success |-> FALSE,
                                 error |-> "Payment gateway not configured"]]
               /\ lastrowid[w] = 0
               /\ sms_result[w] = Empty

\* C11 witness: a complete donation answered under Paystack without its key.
C11_Witness ==
    \E w \in Workers :
        /\ env["PAYMENT_GATEWAY"] = "paystack"
        /\ env["PAYSTACK_SECRET_KEY"] = None
        /\ pc[w] = "done"
        /\ request[w] = FullDonation
        /\ response[w].code = 400

SimulationMode == env["PAYMENT_GATEWAY"] \notin {None, "hubtel", "paystack"}

Digits == { DigitChar[i] : i \in 1..Len(DigitChar) }

\* "SDA" followed by 14 digits
IsSdaReference(ref) ==
    /\ Len(ref) = 17
    /\ SubSeq(ref, 1, 3) = <<"S", "D", "A">>
    /\ \A i \in 4..17 : ref[i] \in Digits

\* C12: in simulation mode every donation request with all required fields
\* ends in a success response whose reference is "SDA" + 14 digits and whose
\* transaction_id is "TEST_" + that reference (a request whose INSERT met a
\* failing store set aside).
C12_SimulationAlwaysSucceeds ==
    \A w \in Workers :
        (/\ SimulationMode
         /\ pc[w] = "done"
         /\ request[w] \in {FullDonation, Without(FullDonation, "donor_email")}
         /\ ~Has(hist[w], "OperationalError"))
            => /\ response[w].code = 200
               /\ response[w].body.success = TRUE
               /\ IsSdaReference(response[w].body.reference)
               /\ response[w].body.transaction_id =
                      <<"T", "E", "S", "T", "_">> \o response[w].body.reference

IsAllowedFileCall(r) == "handler" \in DOMAIN r /\ r.handler = "allowed_file"

\* the name ends in '.' followed by an extension of the list, in any case
EndsInAllowedExtension(filename, allowed_extensions) ==
    \E e \in allowed_extensions :
        /\ Len(filename) > Len(e)
        /\ filename[Len(filename) - Len(e)] = "."
        /\ Lower(SubSeq(filename, Len(filename) - Len(e) + 1, Len(filename))) = e

\* C13: allowed_file accepts a name exactly when it holds a '.' and the text
\* after its last '.', lower-cased, is in the allow-list: "photo.PNG" is an
\* image, and "photo", "photo.", "png" and "a.png.exe" are rejected.
C13_AllowedFileBySuffix ==
    IsAllowedFileCall(last) =>
        /\ last.result <=> EndsInAllowedExtension(last.filename, last.allowed)
        /\ (last.filename = <<"p", "h", "o", "t", "o", ".", "P", "N", "G">>
                /\ last.allowed = ALLOWED_IMAGES) => last.result
        /\ last.filename \in { <<"p", "h", "o", "t", "o">>,
                               <<"p", "h", "o", "t", "o", ".">>,
                               <<"p", "n", "g">>,
                               <<"a", ".", "p", "n", "g", ".", "e", "x", "e">> }
               => ~last.result

\* C13 witness: "photo.PNG" was checked against the image list and accepted.
C13_Witness ==
    /\ IsAllowedFileCall(last)
    /\ last.filename = <<"p", "h", "o", "t", "o", ".", "P", "N", "G">>
    /\ last.allowed = ALLOWED_IMAGES
    /\ last.result

IsBatchUpload(r) ==
    /\ "handler" \in DOMAIN r
    /\ r.handler \in {"upload_photos", "upload_videos", "upload_documents"}
    /\ UploadField(r.handler) \in DOMAIN r.files

\* the files of the request's batch, and those of them the handler accepts
BatchOf(r) == r.files[UploadField(r.handler)]

Accepted(r, i) == allowed_file(BatchOf(r)[i], AllowList(r.handler))

\* saving or inserting a file of the batch raises
BatchRaises(r) ==
    /\ r.fault.op \in {"save", "insert"}
    /\ r.fault.at <= Len(BatchOf(r))
    /\ Accepted(r, r.fault.at)

\* the files of the batch saved before the exception
SavedBeforeRaise(r) ==
    { [dir |-> UploadField(r.handler), name |-> StoredName(now, BatchOf(r)[i])] :
        i \in { k \in 1..Len(BatchOf(r)) :
                  /\ Accepted(r, k)
                  /\ k < r.fault.at \/ (k = r.fault.at /\ r.fault.op = "insert") } }

TablesUnchanged ==
    /\ photos' = photos
    /\ videos' = videos
    /\ documents' = documents
    /\ news' = news

RowsAdded ==
    (Len(photos') - Len(photos)) + (Len(videos') - Len(videos))
        + (Len(documents') - Len(documents))

\* C15: a multi-file upload commits its rows once, after the loop: when saving
\* or inserting a file raises the answer is 500, no row of the batch is
\* committed and the files saved before stay in storage; when nothing raises
\* the rows added are as many as the returned files list is long.
C15_BatchCommittedAtOnce ==
    [][(nuploads' = nuploads + 1 /\ IsBatchUpload(last')) =>
          /\ BatchRaises(last') =>
                 /\ last'.response.code = 500
                 /\ TablesUnchanged
                 /\ storage' = storage \cup SavedBeforeRaise(last')
          /\ last'.response.code = 500 => TablesUnchanged
          /\ last'.fault.op = "none" =>
                 /\ last'.response.code = 200
                 /\ RowsAdded = Len(last'.response.body.files)
                 /\ RowsAdded = Cardinality({ i \in 1..Len(BatchOf(last')) :
                                                 Accepted(last', i) })
          /\ last'.response.code = 200 =>
                 RowsAdded = Len(last'.response.body.files)
      ]_vars

\* C15 witness: saving the second file of a batch raised after the first was
\* saved: the answer is 500, the first file is stored and no row was written.
C15_Witness ==
    /\ IsBatchUpload(last)
    /\ last.fault = [op |-> "save", at |-> 2]
    /\ BatchRaises(last)
    /\ Accepted(last, 1)
    /\ last.response.code = 500
    /\ storage # {}
    /\ photos = <<>> /\ videos = <<>> /\ documents = <<>>

IsPrefix(s, t) == Len(s) <= Len(t) /\ SubSeq(t, 1, Len(s)) = s

EveryTableOnlyGrows ==
    /\ IsPrefix(admins, admins')
    /\ IsPrefix(photos, photos')
    /\ IsPrefix(videos, videos')
    /\ IsPrefix(documents, documents')
    /\ IsPrefix(news, news')
    /\ IsPrefix(donations, donations')
    /\ IsPrefix(contact_messages, contact_messages')

EveryTableUnchanged ==
    /\ admins' = admins
    /\ photos' = photos
    /\ videos' = videos
    /\ documents' = documents
    /\ news' = news
    /\ donations' = donations
    /\ contact_messages' = contact_messages

ReadOnlyEndpoints ==
    {"admin_login", "list_news", "list_photos", "list_videos", "list_donations",
     "donation_stats", "health_check"}

\* a step of a handler that answers in one step: neither the clock nor a
\* donation thread moves, and the handler leaves its request in last
AnsweredInOneStep == now' = now /\ pc' = pc /\ "handler" \in DOMAIN last'

\* C14: no handler deletes or updates a row: in every step each table keeps
\* its rows and at most gains some, admins stays as it is, and the read-only
\* endpoints (login, lists, statistics, health) and every request answered
\* 400 or 401 leave all seven tables unchanged.
C14_TablesOnlyGrow ==
    [][/\ EveryTableOnlyGrows
       /\ admins' = admins
       /\ (AnsweredInOneStep /\ last'.handler \in ReadOnlyEndpoints)
              => EveryTableUnchanged
       /\ (AnsweredInOneStep /\ last'.response.code \in {400, 401})
              => EveryTableUnchanged
       /\ \A w \in Workers :
              (pc[w] # "done" /\ pc'[w] = "done" /\ response'[w].code = 400)
                  => EveryTableUnchanged /\ lastrowid'[w] = 0
      ]_vars

\* C14 witness: with a donation stored, a login with a wrong password has
\* just been answered 401.
C14_Witness ==
    /\ donations # <<>>
    /\ "handler" \in DOMAIN last
    /\ last.handler = "admin_login"
    /\ last.response.code = 401
    /\ admins = init_db_admins

====
